---- MODULE Spec2Model ----
(***************************************************************************)
(* The execution core of pashmak (src/core/program.py): the Program        *)
(* object, its link pass, its main loop, function invocation by splicing   *)
(* into the operation stream, and the try/raise protocol.                  *)
(*                                                                         *)
(* Indices (current_step, the Section Table, entry points) are 0-based as  *)
(* in the source; the stream is a TLA+ sequence, so the operation at       *)
(* source index i is operations[i + 1].                                    *)
(***************************************************************************)
EXTENDS Integers, Sequences, FiniteSets, TLC

VARIABLES
    operations,        \* self.operations: the live operation stream
    sections,          \* self.sections: label -> index
    variables,         \* self.variables: the main variable store
    states,            \* self.states: the call stack of frames
    functions,         \* self.functions: qualified name -> body
    mem,               \* self.mem
    is_test,           \* self.is_test
    output,            \* self.output / the text printed
    runtime_error,     \* self.runtime_error
    is_in_try,         \* self.is_in_try
    runed_functions,   \* self.runed_functions
    current_namespace, \* self.current_namespace
    used_namespaces,   \* self.used_namespaces
    current_func,      \* self.current_func (an attribute that may be absent)
    current_step,      \* self.current_step
    opIndex,           \* the 'index' key of every operation object, by identity
    nextId,            \* identity of the next operation object the parser makes
    phase,             \* where Program.start (or the process) is
    program,           \* the parsed user program handed to set_operations
    signals,           \* SIGINTs delivered so far
    nsteps,            \* operations dispatched by the main loop so far
    last,              \* history: what the latest dispatch (or signal) did
    trace,             \* history: the operations dispatched, in order
    regions,           \* history: the spliced regions of the stream
    views              \* history: the store each caller saw when its frame was pushed

vars == <<operations, sections, variables, states, functions, mem, is_test,
          output, runtime_error, is_in_try, runed_functions, current_namespace,
          used_namespaces, current_func, current_step, opIndex, nextId, phase,
          program, signals, nsteps, last, trace, regions, views>>

-----------------------------------------------------------------------------
(* Bounds of the model. *)

\* the main loop dispatches at most this many operations in a run
MaxSteps == 30
\* SIGINTs delivered in a run
MaxSignals == 1

-----------------------------------------------------------------------------
(* Values. *)

\* Python's None, for the optional strings (is_in_try, current_func)
None == "<None>"

\* an operation object without an 'index' key yet
NoIndex == 0 - 1

\* self.mem = None
MemNone == [kind |-> "none", value |-> "", type |-> "", message |-> "", index |-> NoIndex]

\* self.mem = <a value>
MemValue(v) == [kind |-> "value", value |-> v, type |-> "", message |-> "", index |-> NoIndex]

\* self.mem = {'type': ..., 'message': ..., 'index': ...}
MemError(type, message, index) ==
    [kind |-> "error", value |-> "", type |-> type, message |-> message, index |-> index]

\* self.runtime_error = None
NoError == [type |-> "", message |-> "", op |-> 0, at |-> NoIndex]

\* an operation as the parser returns it: command, args[0], args_str
Op(command, arg, args_str) == [command |-> command, arg |-> arg, args_str |-> args_str]

\* the operation object with identity id
Obj(id, o) == [id |-> id, command |-> o.command, arg |-> o.arg, args_str |-> o.args_str]

\* the names a variable can have in the programs below
VarNames == {"v"}

\* a variable that is not set
Unset == "<unset>"

\* the operation at source index i
At(ops, i) == ops[i + 1]

\* list.insert(i, x) for 0 <= i <= len
Insert(ops, i, x) == SubSeq(ops, 1, i) \o <<x>> \o SubSeq(ops, i + 1, Len(ops))

\* the elements of a list
Range(s) == {s[k] : k \in 1..Len(s)}

-----------------------------------------------------------------------------
(* Dictionaries. *)

\* d[k] = v on a Python dict
SetKey(d, k, v) == [x \in (DOMAIN d) \cup {k} |-> IF x = k THEN v ELSE d[x]]

\* op['index'], NoIndex when the key is absent
IndexOf(idx, id) == IF id \in DOMAIN idx THEN idx[id] ELSE NoIndex

-----------------------------------------------------------------------------
(* Program.update_section_indexes *)

update_section_indexes(secs, after_index) ==
    [k \in DOMAIN secs |-> IF secs[k] > after_index THEN secs[k] + 1 ELSE secs[k]]

-----------------------------------------------------------------------------
(* Program.raise_error, on the part of the state it reads and writes.      *)
(* c.exc is the Python exception that leaves the call ("" when none),      *)
(* c.halt is "exit" after sys.exit(1).  c.raises lists the calls made and  *)
(* c.reads the values get_mem returned to the handler.                     *)

\* the state raise_error works on, before a handler runs
Ctl ==
    [is_in_try |-> is_in_try, current_step |-> current_step, mem |-> mem,
     runtime_error |-> runtime_error, halt |-> "", exc |-> "", raises |-> <<>>,
     reads |-> <<>>]

\* raise_error without the harness branch: an unarmed raise always ends the process
raise_error_fatal(c, secs, test, error_type, message, id, index) ==
    [c EXCEPT !.raises = Append(@, [type |-> error_type, message |-> message,
                                    armed |-> c.is_in_try, index |-> index]),
              !.halt = "exit"]

\* raise_error that records every unarmed raise instead of ending the process
raise_error_recorded(c, secs, test, error_type, message, id, index) ==
    LET c1 == [c EXCEPT !.raises = Append(@, [type |-> error_type, message |-> message,
                                               armed |-> c.is_in_try, index |-> index])]
    IN  IF c.is_in_try # None /\ c.is_in_try \in DOMAIN secs
        THEN [c1 EXCEPT !.is_in_try = None,
                        !.current_step = secs[c.is_in_try] - 1,
                        !.mem = MemError(error_type, message, index)]
        ELSE [c1 EXCEPT !.runtime_error =
                  [type |-> error_type, message |-> message, op |-> id, at |-> index]]

raise_error(c, secs, test, error_type, message, id, index) ==
    LET c1 == [c EXCEPT !.raises = Append(@, [type |-> error_type, message |-> message,
                                               armed |-> c.is_in_try, index |-> index])]
    IN  IF c.is_in_try # None
        THEN LET section_index == c.is_in_try
                 c2 == [c1 EXCEPT !.is_in_try = None]
             IN  IF section_index \notin DOMAIN secs
                 THEN [c2 EXCEPT !.exc = "'" \o section_index \o "'"]     \* KeyError
                 ELSE LET c3 == [c2 EXCEPT !.current_step = secs[section_index] - 1]
                      IN  IF index = NoIndex
                          THEN [c3 EXCEPT !.exc = "'index'"]              \* KeyError
                          ELSE [c3 EXCEPT !.mem = MemError(error_type, message, index)]
        ELSE IF test
             THEN [c1 EXCEPT !.runtime_error =
                       [type |-> error_type, message |-> message, op |-> id, at |-> index]]
             ELSE IF index = NoIndex
                  THEN [c1 EXCEPT !.exc = "'index'"]     \* KeyError of the rendering
                  ELSE [c1 EXCEPT !.halt = "exit"]        \* sys.exit(1)

\* the except clause of the main loop (Program.start): an exception that left
\* run() is raised as a RuntimeError against the operation at current_step, whose
\* index is set to current_step; an exception of this raise_error is not caught
start_except(c, secs, test, ops) ==
    IF c.exc = "" \/ c.halt # ""
    THEN c
    ELSE LET r == raise_error([c EXCEPT !.exc = ""], secs, test, "RuntimeError", c.exc,
                              At(ops, c.current_step).id, c.current_step)
         IN  IF r.exc # "" THEN [r EXCEPT !.halt = "crash"] ELSE r

-----------------------------------------------------------------------------
(* Program.exec_func *)

\* exec_func_loop without "i += 1": every operation is inserted right after the call
RECURSIVE exec_func_loop_stuck(_, _, _, _, _, _)
exec_func_loop_stuck(func_body, k, i, is_in_func, ops, secs) ==
    IF k > Len(func_body)
    THEN [operations |-> ops, sections |-> secs, i |-> i]
    ELSE LET func_op == func_body[k]
         IN  IF func_op.command = "section" /\ ~is_in_func
             THEN exec_func_loop_stuck(func_body, k + 1, i, is_in_func, ops,
                                       SetKey(secs, func_op.arg, i + 1))
             ELSE exec_func_loop_stuck(func_body, k + 1, i,
                                       IF func_op.command = "func" THEN TRUE
                                       ELSE IF func_op.command = "endfunc" THEN FALSE
                                       ELSE is_in_func,
                                       Insert(ops, i + 1, func_op),
                                       update_section_indexes(secs, i + 1))

\* the for loop of exec_func from body[k] on: i is the index of the latest insertion
RECURSIVE exec_func_loop(_, _, _, _, _, _)
exec_func_loop(func_body, k, i, is_in_func, ops, secs) ==
    IF k > Len(func_body)
    THEN [operations |-> ops, sections |-> secs, i |-> i]
    ELSE LET func_op == func_body[k]
         IN  IF func_op.command = "section" /\ ~is_in_func
             THEN exec_func_loop(func_body, k + 1, i, is_in_func, ops,
                                 SetKey(secs, func_op.arg, i + 1))
             ELSE exec_func_loop(func_body, k + 1, i + 1,
                                 IF func_op.command = "func" THEN TRUE
                                 ELSE IF func_op.command = "endfunc" THEN FALSE
                                 ELSE is_in_func,
                                 Insert(ops, i + 1, func_op),
                                 update_section_indexes(secs, i + 1))

\* the frame pushed for a call
Frame(step, store) == [entry_point |-> step, vars |-> store]

\* the popstate marker appended after a spliced body
PopstateObj(id) == Obj(id, Op("popstate", "", ""))

\* set_operation_index on every operation of a body
IndexBody(idx, func_body, step) ==
    [x \in (DOMAIN idx) \cup {func_body[k].id : k \in 1..Len(func_body)} |->
        IF \E k \in 1..Len(func_body) : func_body[k].id = x THEN step ELSE idx[x]]

\* exec_func without the check of runed_functions: every dispatch splices
exec_func_unguarded(s, func_body, with_state, step) ==
    LET r == exec_func_loop(func_body, 1, step, FALSE, s.operations, s.sections)
    IN  [s EXCEPT
           !.states = IF with_state THEN Append(@, Frame(step, s.variables)) ELSE @,
           !.runed_functions = IF with_state THEN Append(@, step) ELSE @,
           !.opIndex = IndexBody(@, func_body, step),
           !.operations = IF with_state
                          THEN Insert(r.operations, r.i + 1, PopstateObj(s.nextId))
                          ELSE r.operations,
           !.sections = IF with_state
                        THEN update_section_indexes(r.sections, r.i + 1)
                        ELSE r.sections,
           !.nextId = IF with_state THEN @ + 1 ELSE @]

\* exec_func(func_body, with_state) at current_step = step; s holds the fields
\* it reads and writes
exec_func(s, func_body, with_state, step) ==
    LET pushed == IF with_state
                  THEN Append(s.states, Frame(step, s.variables))
                  ELSE s.states
    IN  IF with_state /\ step \in Range(s.runed_functions)
        THEN [s EXCEPT !.states = pushed]
        ELSE LET r == exec_func_loop(func_body, 1, step, FALSE, s.operations, s.sections)
             IN  [s EXCEPT
                    !.states = pushed,
                    !.runed_functions = IF with_state THEN Append(@, step) ELSE @,
                    !.opIndex = IndexBody(@, func_body, step),
                    !.operations = IF with_state
                                   THEN Insert(r.operations, r.i + 1, PopstateObj(s.nextId))
                                   ELSE r.operations,
                    !.sections = IF with_state
                                 THEN update_section_indexes(r.sections, r.i + 1)
                                 ELSE r.sections,
                    !.nextId = IF with_state THEN @ + 1 ELSE @]

\* the fields exec_func works on
Heap ==
    [operations |-> operations, sections |-> sections, states |-> states,
     variables |-> variables, runed_functions |-> runed_functions,
     opIndex |-> opIndex, nextId |-> nextId]

-----------------------------------------------------------------------------
(* Program.get_mem *)

\* get_mem that leaves the value in the register
get_mem_keeps(m) == [value |-> m, mem |-> m]

get_mem(m) == [value |-> m, mem |-> MemNone]

-----------------------------------------------------------------------------
(* The link pass of Program.start ("load the sections"). *)

\* the link pass leaving a label declaration where a no-op belongs
KeptObj(id) == Obj(id, Op("section", "", ""))

\* the no-op that replaces a linked label declaration
PassObj(id) == Obj(id, Op("pass", "", ""))

\* the link pass recording i+2 for a label declared at i
RECURSIVE link_loop_skips(_, _, _, _, _)
link_loop_skips(i, is_in_func, ops, secs, nid) ==
    IF ~(i < Len(ops))
    THEN [operations |-> ops, sections |-> secs, nextId |-> nid]
    ELSE LET current_op == At(ops, i)
         IN  IF current_op.command = "section" /\ ~is_in_func
             THEN link_loop_skips(i + 1, is_in_func, [ops EXCEPT ![i + 1] = PassObj(nid)],
                                  SetKey(secs, current_op.arg, i + 2), nid + 1)
             ELSE link_loop_skips(i + 1,
                                  IF current_op.command = "func" THEN TRUE
                                  ELSE IF current_op.command = "endfunc" THEN FALSE
                                  ELSE is_in_func,
                                  ops, secs, nid)

RECURSIVE link_loop(_, _, _, _, _)
link_loop(i, is_in_func, ops, secs, nid) ==
    IF ~(i < Len(ops))
    THEN [operations |-> ops, sections |-> secs, nextId |-> nid]
    ELSE LET current_op == At(ops, i)
         IN  IF current_op.command = "section"
             THEN IF ~is_in_func
                  THEN link_loop(i + 1, is_in_func, [ops EXCEPT ![i + 1] = PassObj(nid)],
                                 SetKey(secs, current_op.arg, i + 1), nid + 1)
                  ELSE link_loop(i + 1, is_in_func, ops, secs, nid)
             ELSE IF current_op.command = "func"
                  THEN link_loop(i + 1, TRUE, ops, secs, nid)
                  ELSE IF current_op.command = "endfunc"
                       THEN link_loop(i + 1, FALSE, ops, secs, nid)
                       ELSE link_loop(i + 1, is_in_func, ops, secs, nid)

link(ops, secs, nid) == link_loop(0, FALSE, ops, secs, nid)

-----------------------------------------------------------------------------
(* Name resolution of Program.run ("check function exists"). *)

\* func_body after the loop over the used namespaces, from used[k] on
RECURSIVE used_lookup(_, _, _, _, _)
used_lookup(fns, used, op_name, k, func_body) ==
    IF k > Len(used)
    THEN func_body
    ELSE LET q == used[k] \o "." \o op_name
         IN  used_lookup(fns, used, op_name, k + 1,
                         IF q \in DOMAIN fns
                         THEN [some |-> TRUE, body |-> fns[q]]
                         ELSE func_body)

\* resolve with the bare global name looked up first
resolve_global_first(fns, ns, used, op_name) ==
    IF op_name \in DOMAIN fns
    THEN [some |-> TRUE, body |-> fns[op_name]]
    ELSE IF (ns \o op_name) \in DOMAIN fns
         THEN [some |-> TRUE, body |-> fns[ns \o op_name]]
         ELSE used_lookup(fns, used, op_name, 1, [some |-> FALSE, body |-> <<>>])

\* [some |-> FALSE] is the KeyError of the last lookup (undefined operation)
resolve(fns, ns, used, op_name) ==
    IF (ns \o op_name) \in DOMAIN fns
    THEN [some |-> TRUE, body |-> fns[ns \o op_name]]
    ELSE LET func_body == used_lookup(fns, used, op_name, 1,
                                      [some |-> FALSE, body |-> <<>>])
         IN  IF func_body.some /\ func_body.body # <<>>       \* "if not func_body"
             THEN func_body
             ELSE IF op_name \in DOMAIN fns
                  THEN [some |-> TRUE, body |-> fns[op_name]]
                  ELSE [some |-> FALSE, body |-> <<>>]

-----------------------------------------------------------------------------
(* The evaluation of a call's argument text: eval('(' + args_str + ')').    *)
(* The texts of the programs below are literals; "1/0" raises.              *)

eval_fails(args_str) == args_str = "1/0"

eval_message(args_str) == "division by zero"

\* a quoted text evaluates to the text, a numeral to the number (kept as its digits)
eval_value(args_str) ==
    IF args_str = "\"@stdlib\"" THEN "@stdlib"
    ELSE IF args_str = "\"a\"" THEN "a"
    ELSE IF args_str = "\"b\"" THEN "b"
    ELSE args_str

-----------------------------------------------------------------------------
(* The variable store (core/helpers.py): the live store is the top frame's  *)
(* copy while a call is active, the main store otherwise.                   *)

all_vars(sts, store) == IF sts # <<>> THEN sts[Len(sts)].vars ELSE store

get_var(sts, store, name) ==
    IF name \in DOMAIN all_vars(sts, store) THEN all_vars(sts, store)[name] ELSE Unset

set_var(sts, store, name, value) ==
    IF sts # <<>>
    THEN [states |-> [sts EXCEPT ![Len(sts)].vars = SetKey(@, name, value)],
          variables |-> store]
    ELSE [states |-> sts, variables |-> SetKey(store, name, value)]

-----------------------------------------------------------------------------
(* The programs the model runs: each is the parser's output for a script.   *)

Set(v, value) == Op("set", v, value)
Out(text) == Op("out", text, text)
Section(l) == Op("section", l, l)
Goto(l) == Op("goto", l, l)
Try(l) == Op("try", l, l)
Endtry == Op("endtry", "", "")
Func(f) == Op("func", f, f)
Endfunc == Op("endfunc", "", "")
Namespace(n) == Op("namespace", n, n)
Endnamespace == Op("endnamespace", "", "")
Use(n) == Op("use", n, n)
Call(f, args_str) == Op(f, args_str, args_str)

\* try L; bogus; out "A"; section L; out "B"; bogus
ProgTry ==
    <<Try("L"), Call("bogus", ""), Out("A"), Section("L"), Out("B"), Call("bogus", "")>>

\* try nolabel; bogus; out "A"
ProgTryUndefined == <<Try("nolabel"), Call("bogus", ""), Out("A")>>

\* try L; out "A"; endtry; bogus; section L; out "B"
ProgEndtry ==
    <<Try("L"), Out("A"), Endtry, Call("bogus", ""), Section("L"), Out("B")>>

\* func f; set $v 1; out "x"; endfunc; set $v 0; f 7; out "y"; section L; out "z"
ProgCall ==
    <<Func("f"), Set("v", "1"), Out("x"), Endfunc, Set("v", "0"), Call("f", "7"),
      Out("y"), Section("L"), Out("z")>>

\* a.f and b.f, no global f; use a; use b; f
ProgUse ==
    <<Namespace("a"), Func("f"), Out("a"), Endfunc, Endnamespace,
      Namespace("b"), Func("f"), Out("b"), Endfunc, Endnamespace,
      Use("a"), Use("b"), Call("f", "")>>

\* a.f with an empty body and the global f; use a; f called inside namespace m
ProgUseEmpty ==
    <<Namespace("a"), Func("f"), Endfunc, Endnamespace,
      Func("f"), Out("g"), Endfunc, Use("a"),
      Namespace("m"), Call("f", ""), Endnamespace>>

\* a.f and the global f; use a; f called inside namespace m
ProgUseGlobal ==
    <<Namespace("a"), Func("f"), Out("a"), Endfunc, Endnamespace,
      Func("f"), Out("g"), Endfunc, Use("a"),
      Namespace("m"), Call("f", ""), Endnamespace>>

\* a.f, the global f and m.f (empty); use a; use b; f called inside namespace m
ProgNamespace ==
    <<Namespace("a"), Func("f"), Out("a"), Endfunc, Endnamespace,
      Func("f"), Out("g"), Endfunc, Use("a"), Use("b"),
      Namespace("m"), Func("f"), Endfunc, Call("f", ""), Endnamespace>>

\* func f; out "x"; endfunc; section top; section inner; f; goto top
ProgLoop ==
    <<Func("f"), Out("x"), Endfunc, Section("top"), Section("inner"), Call("f", ""),
      Goto("top")>>

\* func f; out "1"; endfunc; func g; f; section E; out "2"; endfunc; g; out "3"
ProgNested ==
    <<Func("f"), Out("1"), Endfunc, Func("g"), Call("f", ""), Section("E"), Out("2"),
      Endfunc, Call("g", ""), Out("3")>>

\* func f; bogus; out "q"; endfunc; try L; f; out "A"; section L; out "B"
ProgRaiseInBody ==
    <<Func("f"), Call("bogus", ""), Out("q"), Endfunc, Try("L"), Call("f", ""),
      Out("A"), Section("L"), Out("B")>>

\* func f; out "x"; endfunc; try L; f 1/0; out "A"; section L; f 1/0
ProgArgFails ==
    <<Func("f"), Out("x"), Endfunc, Try("L"), Call("f", "1/0"), Out("A"),
      Section("L"), Call("f", "1/0")>>

\* section done; goto done; out "A"; section x_done; out "B"
ProgGoto == <<Section("done"), Goto("done"), Out("A"), Section("x_done"), Out("B")>>

\* goto nowhere; out "A"
ProgGotoUndefined == <<Goto("nowhere"), Out("A")>>

\* section L; out "a"; section L; out "b"
ProgDuplicate == <<Section("L"), Out("a"), Section("L"), Out("b")>>

\* func f; func g; endfunc; f; section L; out "x"   (f's body is "func g")
ProgNestedFunc ==
    <<Func("f"), Func("g"), Endfunc, Call("f", ""), Section("L"), Out("x")>>

\* bogus; out "A"; goto nowhere
ProgTwoErrors == <<Call("bogus", ""), Out("A"), Goto("nowhere")>>

\* func f; bogus; out "q"; endfunc; f; out "A"
ProgFatalInBody ==
    <<Func("f"), Call("bogus", ""), Out("q"), Endfunc, Call("f", ""), Out("A")>>

\* try L; goto M; out "A"; section M; out "B"; endtry; section L; out "C"
ProgTryGoto ==
    <<Try("L"), Goto("M"), Out("A"), Section("M"), Out("B"), Endtry, Section("L"),
      Out("C")>>

\* mem "a"; mem "b"; include ^; include ^; mem; include ^
ProgMem ==
    <<Call("mem", "\"a\""), Call("mem", "\"b\""), Op("include", "^", "^"),
      Op("include", "^", "^"), Call("mem", ""), Op("include", "^", "^")>>

\* func f; out "x"; endfunc; goto skip; section back; f; goto skip; section skip;
\* f; goto back
ProgStale ==
    <<Func("f"), Out("x"), Endfunc, Goto("skip"), Section("back"), Call("f", ""),
      Goto("skip"), Section("skip"), Call("f", ""), Goto("back")>>

Programs ==
    {ProgStale, ProgMem, ProgTryGoto, ProgTwoErrors, ProgFatalInBody, ProgTry, ProgTryUndefined, ProgEndtry, ProgCall, ProgUse, ProgUseEmpty,
     ProgUseGlobal, ProgNamespace, ProgLoop, ProgNested, ProgRaiseInBody, ProgArgFails, ProgGoto,
     ProgGotoUndefined, ProgDuplicate, ProgNestedFunc}

\* the operation objects of a parsed program: identities 1..n
Parsed(p) == [k \in 1..Len(p) |-> Obj(k, p[k])]

-----------------------------------------------------------------------------
(* Program.__init__ *)

\* what a step that dispatches nothing records
Quiet(act) ==
    [act |-> act, pos |-> NoIndex, id |-> 0, raises |-> <<>>, body |-> <<>>, reads |-> <<>>]

Init ==
    /\ program \in {Parsed(p) : p \in Programs}
    /\ is_test \in BOOLEAN
    /\ variables = ("argv" :> "[]") @@ ("argc" :> "0")
    /\ states = <<>>
    /\ functions = ("mem" :> <<>>)
    /\ operations = <<>>
    /\ sections = <<>>
    /\ mem = MemNone
    /\ output = ""
    /\ runtime_error = NoError
    /\ is_in_try = None
    /\ runed_functions = <<>>
    /\ current_namespace = ""
    /\ used_namespaces = <<>>
    /\ current_func = None
    /\ current_step = 0
    /\ opIndex = <<>>
    /\ nextId = Len(program) + 1
    /\ phase = "new"
    /\ signals = 0
    /\ nsteps = 0
    /\ last = Quiet("Init")
    /\ trace = <<>>
    /\ regions = <<>>
    /\ views = <<>>

-----------------------------------------------------------------------------
(* Program.set_operations: the stdlib prelude is put before the program.    *)

set_operations ==
    /\ phase = "new"
    /\ operations' = <<Obj(nextId, Call("mem", "\"@stdlib\"")),
                       Obj(nextId + 1, Op("include", "^", "^"))>> \o program
    /\ nextId' = nextId + 2
    /\ phase' = "loaded"
    /\ last' = Quiet("set_operations")
    /\ UNCHANGED <<sections, variables, states, functions, mem, is_test, output,
                   runtime_error, is_in_try, runed_functions, current_namespace,
                   used_namespaces, current_func, current_step, opIndex, program,
                   signals, nsteps, trace, regions, views>>

(* Program.start, up to the main loop: the link pass. *)

start_link ==
    /\ phase = "loaded"
    /\ LET r == link(operations, sections, nextId)
       IN  /\ operations' = r.operations
           /\ sections' = r.sections
           /\ nextId' = r.nextId
    /\ opIndex' = [id \in {operations[k].id : k \in 1..Len(operations)} |-> 0]
    /\ current_step' = 0
    /\ phase' = "fetch"
    /\ last' = Quiet("start_link")
    /\ UNCHANGED <<variables, states, functions, mem, is_test, output, runtime_error,
                   is_in_try, runed_functions, current_namespace, used_namespaces,
                   current_func, program, signals, nsteps, trace, regions, views>>

-----------------------------------------------------------------------------
(* The main loop of Program.start and Program.run.  One iteration is         *)
(*     run(self.operations[self.current_step])        (phase "fetch")       *)
(*     self.current_step += 1                         (phase "advance")     *)
(* and each handler of run is one action.                                   *)

\* the loop condition holds and an operation is dispatched
Dispatching == phase = "fetch" /\ current_step < Len(operations) /\ nsteps < MaxSteps

\* the operation handed to run()
CurOp == At(operations, current_step)

\* "if a function is started": self.current_func exists and names a function
InDefinition == current_func # None /\ current_func \in DOMAIN functions

\* the commands run() handles itself
Builtins ==
    {"endfunc", "popstate", "set", "out", "func", "include", "goto", "try", "endtry",
     "namespace", "endnamespace", "use", "pass"}

\* run() reaches the handler of command cmd
Handles(cmd) == Dispatching /\ CurOp.command = cmd /\ ~InDefinition

\* the end of an iteration's run(): c is the state the handler and raise_error left
Ran(act, c, func_body) ==
    /\ is_in_try' = c.is_in_try
    /\ current_step' = c.current_step
    /\ mem' = c.mem
    /\ runtime_error' = c.runtime_error
    /\ phase' = IF c.halt # "" THEN c.halt ELSE "advance"
    /\ nsteps' = nsteps + 1
    /\ last' = [act |-> act, pos |-> current_step, id |-> CurOp.id,
                raises |-> c.raises, body |-> func_body, reads |-> c.reads]
    /\ trace' = Append(trace, [pos |-> current_step, id |-> CurOp.id])
    /\ UNCHANGED <<is_test, program, signals>>

\* raise_error called by a handler of run(), and the except clause of the loop
Raised(error_type, message) ==
    start_except(raise_error(Ctl, sections, is_test, error_type, message,
                             CurOp.id, current_step),
                 sections, is_test, operations)

\* set_operation_index(op) and nothing else on the stream, the table or the stack
OnlyIndexed ==
    /\ opIndex' = SetKey(opIndex, CurOp.id, current_step)
    /\ UNCHANGED <<operations, sections, states, runed_functions, nextId, regions, views>>

run_endfunc ==
    /\ Dispatching /\ CurOp.command = "endfunc"
    /\ current_func' = None
    /\ OnlyIndexed
    /\ Ran("run_endfunc", Ctl, <<>>)
    /\ UNCHANGED <<variables, functions, output, current_namespace, used_namespaces>>

\* the popstate handler leaving the frame on the stack
run_popstate_keeps ==
    /\ Dispatching /\ CurOp.command = "popstate"
    /\ opIndex' = SetKey(opIndex, CurOp.id, current_step)
    /\ Ran("run_popstate", Ctl, <<>>)
    /\ UNCHANGED <<operations, sections, runed_functions, nextId, variables, functions,
                   output, current_namespace, used_namespaces, current_func, regions,
                   states, views>>

run_popstate ==
    /\ Dispatching /\ CurOp.command = "popstate"
    /\ states' = IF states # <<>> THEN SubSeq(states, 1, Len(states) - 1) ELSE states
    /\ opIndex' = SetKey(opIndex, CurOp.id, current_step)
    /\ views' = IF states # <<>> THEN SubSeq(views, 1, Len(views) - 1) ELSE views
    /\ Ran("run_popstate", Ctl, <<>>)
    /\ UNCHANGED <<operations, sections, runed_functions, nextId, variables, functions,
                   output, current_namespace, used_namespaces, current_func, regions>>

\* run_append that also runs a `set` it appends
run_append_runs ==
    /\ Dispatching /\ CurOp.command \notin {"endfunc", "popstate"} /\ InDefinition
    /\ functions' = [functions EXCEPT ![current_func] = Append(@, CurOp)]
    /\ opIndex' = SetKey(opIndex, CurOp.id, current_step)
    /\ variables' = IF CurOp.command = "set"
                    THEN SetKey(variables, CurOp.arg, CurOp.args_str)
                    ELSE variables
    /\ Ran("run_append", Ctl, <<>>)
    /\ UNCHANGED <<operations, sections, states, runed_functions, nextId, regions, views,
                   output, current_namespace, used_namespaces, current_func>>

\* inside a definition the operation is appended to the body being recorded
run_append ==
    /\ Dispatching /\ CurOp.command \notin {"endfunc", "popstate"} /\ InDefinition
    /\ functions' = [functions EXCEPT ![current_func] = Append(@, CurOp)]
    /\ OnlyIndexed
    /\ Ran("run_append", Ctl, <<>>)
    /\ UNCHANGED <<variables, output, current_namespace, used_namespaces, current_func>>

run_set ==
    /\ Handles("set")
    /\ LET r == set_var(states, variables, CurOp.arg, CurOp.args_str)
       IN  states' = r.states /\ variables' = r.variables
    /\ opIndex' = SetKey(opIndex, CurOp.id, current_step)
    /\ Ran("run_set", Ctl, <<>>)
    /\ UNCHANGED <<operations, sections, runed_functions, nextId, functions, output,
                   current_namespace, used_namespaces, current_func, regions, views>>

run_out ==
    /\ Handles("out")
    /\ output' = output \o CurOp.arg
    /\ OnlyIndexed
    /\ Ran("run_out", Ctl, <<>>)
    /\ UNCHANGED <<variables, functions, current_namespace, used_namespaces, current_func>>

run_func ==
    /\ Handles("func")
    /\ current_func' = current_namespace \o CurOp.arg
    /\ functions' = SetKey(functions, current_namespace \o CurOp.arg, <<>>)
    /\ OnlyIndexed
    /\ Ran("run_func", Ctl, <<>>)
    /\ UNCHANGED <<variables, output, current_namespace, used_namespaces>>

\* include ^: the module named by mem is spliced without a frame; the standard
\* library's own operations are not part of the core and its body is empty here.
\* Reading any other module is a file operation that may fail: the failure
\* goes through the raise path
run_include ==
    /\ Handles("include")
    /\ \E fails \in BOOLEAN :
         /\ fails => get_mem(mem).value # MemValue("@stdlib")
         /\ LET h == IF fails
                     THEN [Heap EXCEPT !.opIndex = SetKey(@, CurOp.id, current_step)]
                     ELSE exec_func([Heap EXCEPT !.opIndex =
                                        SetKey(@, CurOp.id, current_step)],
                                    <<>>, FALSE, current_step)
                c == [Ctl EXCEPT !.mem = get_mem(mem).mem,
                                 !.reads = <<get_mem(mem).value>>]
            IN  /\ operations' = h.operations /\ sections' = h.sections
                /\ states' = h.states /\ variables' = h.variables
                /\ runed_functions' = h.runed_functions
                /\ opIndex' = h.opIndex /\ nextId' = h.nextId
                /\ Ran("run_include",
                       IF fails
                       THEN start_except(raise_error(c, sections, is_test, "RuntimeError",
                                                     "cannot include", CurOp.id,
                                                     current_step),
                                         sections, is_test, operations)
                       ELSE c,
                       <<>>)
    /\ UNCHANGED <<functions, output, current_namespace, used_namespaces, current_func,
                   regions, views>>

run_goto ==
    /\ Handles("goto")
    /\ OnlyIndexed
    /\ IF CurOp.arg \in DOMAIN sections
       THEN Ran("run_goto", [Ctl EXCEPT !.current_step = sections[CurOp.arg] - 1], <<>>)
       ELSE Ran("run_goto",
                Raised("SyntaxError", "undefined section \"" \o CurOp.arg \o "\""),
                <<>>)
    /\ UNCHANGED <<variables, functions, output, current_namespace, used_namespaces,
                   current_func>>

run_try ==
    /\ Handles("try")
    /\ OnlyIndexed
    /\ Ran("run_try", [Ctl EXCEPT !.is_in_try = CurOp.arg], <<>>)
    /\ UNCHANGED <<variables, functions, output, current_namespace, used_namespaces,
                   current_func>>

run_endtry ==
    /\ Handles("endtry")
    /\ OnlyIndexed
    /\ Ran("run_endtry", [Ctl EXCEPT !.is_in_try = None], <<>>)
    /\ UNCHANGED <<variables, functions, output, current_namespace, used_namespaces,
                   current_func>>

run_namespace ==
    /\ Handles("namespace")
    /\ current_namespace' = current_namespace \o CurOp.arg \o "."
    /\ OnlyIndexed
    /\ Ran("run_namespace", Ctl, <<>>)
    /\ UNCHANGED <<variables, functions, output, used_namespaces, current_func>>

run_endnamespace ==
    /\ Handles("endnamespace")
    /\ current_namespace' = ""
    /\ OnlyIndexed
    /\ Ran("run_endnamespace", Ctl, <<>>)
    /\ UNCHANGED <<variables, functions, output, used_namespaces, current_func>>

run_use ==
    /\ Handles("use")
    /\ used_namespaces' = Append(used_namespaces, CurOp.arg)
    /\ OnlyIndexed
    /\ Ran("run_use", Ctl, <<>>)
    /\ UNCHANGED <<variables, functions, output, current_namespace, current_func>>

run_pass ==
    /\ Handles("pass")
    /\ OnlyIndexed
    /\ Ran("run_pass", Ctl, <<>>)
    /\ UNCHANGED <<variables, functions, output, current_namespace, used_namespaces,
                   current_func>>

-----------------------------------------------------------------------------
(* Program.run, an operation that is no built-in command: a function call.  *)

\* the spliced regions once k operations are inserted after index p
Shifted(rs, p, k) ==
    [j \in 1..Len(rs) |->
        [rs[j] EXCEPT !.start = IF @ > p THEN @ + k ELSE @,
                      !.end = IF @ > p THEN @ + k ELSE @]]

\* run() reaches "check function exists"
Calls == Dispatching /\ CurOp.command \notin Builtins /\ ~InDefinition

\* what the name of the dispatched operation resolves to
Resolved == resolve(functions, current_namespace, used_namespaces, CurOp.command)

\* the name resolves and the arguments evaluate: mem is written, the body spliced
run_call ==
    /\ Calls /\ Resolved.some /\ ~eval_fails(CurOp.args_str)
    /\ LET h == exec_func([Heap EXCEPT !.opIndex = SetKey(@, CurOp.id, current_step)],
                          Resolved.body, TRUE, current_step)
       IN  /\ operations' = h.operations /\ sections' = h.sections
           /\ states' = h.states /\ variables' = h.variables
           /\ runed_functions' = h.runed_functions
           /\ opIndex' = h.opIndex /\ nextId' = h.nextId
           /\ regions' = IF Len(h.operations) = Len(operations)
                         THEN regions
                         ELSE Append(Shifted(regions, current_step,
                                             Len(h.operations) - Len(operations)),
                                     [start |-> current_step,
                                      end |-> current_step + Len(h.operations)
                                                           - Len(operations),
                                      at |-> Len(trace) + 1,
                                      body |-> Resolved.body,
                                      popstate |-> nextId])
    /\ views' = Append(views, all_vars(states, variables))
    /\ Ran("run_call",
           [Ctl EXCEPT !.mem = IF CurOp.args_str # ""
                                THEN MemValue(eval_value(CurOp.args_str))
                                ELSE MemValue("")],
           Resolved.body)
    /\ UNCHANGED <<functions, output, current_namespace, used_namespaces, current_func>>

\* the name resolves to nothing
run_call_undefined ==
    /\ Calls /\ ~Resolved.some
    /\ OnlyIndexed
    /\ Ran("run_call_undefined",
           Raised("SyntaxError", "undefined operation \"" \o CurOp.command \o "\""),
           <<>>)
    /\ UNCHANGED <<variables, functions, output, current_namespace, used_namespaces,
                   current_func>>

\* evaluating the argument text raises: nothing is written to mem, nothing spliced
run_call_fails ==
    /\ Calls /\ Resolved.some /\ eval_fails(CurOp.args_str)
    /\ OnlyIndexed
    /\ Ran("run_call_fails", Raised("RuntimeError", eval_message(CurOp.args_str)),
           Resolved.body)
    /\ UNCHANGED <<variables, functions, output, current_namespace, used_namespaces,
                   current_func>>

-----------------------------------------------------------------------------
(* The rest of the loop. *)

\* self.current_step += 1
advance ==
    /\ phase = "advance"
    /\ current_step' = current_step + 1
    /\ phase' = "fetch"
    /\ UNCHANGED <<operations, sections, variables, states, functions, mem, is_test,
                   output, runtime_error, is_in_try, runed_functions, current_namespace,
                   used_namespaces, current_func, opIndex, nextId, program, signals,
                   nsteps, last, trace, regions, views>>

\* the loop condition fails: start() returns
finish ==
    /\ phase = "fetch"
    /\ ~(current_step < Len(operations))
    /\ phase' = "done"
    /\ UNCHANGED <<operations, sections, variables, states, functions, mem, is_test,
                   output, runtime_error, is_in_try, runed_functions, current_namespace,
                   used_namespaces, current_func, current_step, opIndex, nextId, program,
                   signals, nsteps, last, trace, regions, views>>

(* Program.signal_handler: SIGINT arrives between run() and the increment      *)
(* (phase "advance") or between the increment and run() (phase "fetch").       *)
(* An exception of the handler is caught by the loop's except clause when the  *)
(* interrupted instruction is inside the try block, and ends the process       *)
(* otherwise.                                                                  *)
signal_handler ==
    /\ phase \in {"fetch", "advance"}
    /\ signals < MaxSignals
    /\ current_step < Len(operations)
    /\ signals' = signals + 1
    /\ LET op == At(operations, current_step)
           r == raise_error(Ctl, sections, is_test, "Signal", "2", op.id,
                            IndexOf(opIndex, op.id))
       IN  \E in_try \in BOOLEAN :
             LET c == IF r.exc = "" THEN r
                      ELSE IF in_try THEN start_except(r, sections, is_test, operations)
                      ELSE [r EXCEPT !.halt = "crash"]
             IN  /\ is_in_try' = c.is_in_try
                 /\ current_step' = c.current_step
                 /\ mem' = c.mem
                 /\ runtime_error' = c.runtime_error
                 /\ phase' = IF c.halt # "" THEN c.halt
                             ELSE IF r.exc # "" THEN "advance"
                             ELSE phase
                 /\ opIndex' = IF r.exc # "" /\ in_try
                               THEN SetKey(opIndex, At(operations, r.current_step).id,
                                           r.current_step)
                               ELSE opIndex
                 /\ last' = [act |-> "signal_handler", pos |-> current_step, id |-> op.id,
                             raises |-> c.raises, body |-> <<>>, reads |-> <<>>]
    /\ UNCHANGED <<operations, sections, variables, states, functions, is_test, output,
                   runed_functions, current_namespace, used_namespaces, current_func,
                   nextId, program, nsteps, trace, regions, views>>

(* Program.signal_handler while run() is at work.  The handler is installed   *)
(* with signal.signal and runs between two bytecodes of the main thread,       *)
(* wherever that thread is.  Two of those points are modelled, for an          *)
(* interrupt that raise_error recovers (try-context armed with a recorded      *)
(* label) or records (harness mode): inside the goto handler before it writes  *)
(* the program counter, and inside exec_func between the insertion of the      *)
(* popstate marker and the update of the Section Table that follows it.        *)

\* the end of an iteration's run() that a SIGINT interrupted
Preempted(act, c, func_body) ==
    /\ is_in_try' = c.is_in_try
    /\ current_step' = c.current_step
    /\ mem' = c.mem
    /\ runtime_error' = c.runtime_error
    /\ phase' = "advance"
    /\ nsteps' = nsteps + 1
    /\ signals' = signals + 1
    /\ last' = [act |-> act, pos |-> current_step, id |-> CurOp.id,
                raises |-> c.raises, body |-> func_body, reads |-> c.reads]
    /\ trace' = Append(trace, [pos |-> current_step, id |-> CurOp.id])
    /\ UNCHANGED <<is_test, program>>

\* raise_error neither ends the process nor fails when called with the table secs
Survivable(secs) == IF is_in_try # None THEN is_in_try \in DOMAIN secs ELSE is_test

\* SIGINT inside the goto handler, before it writes the program counter
signal_in_goto ==
    /\ Handles("goto") /\ CurOp.arg \in DOMAIN sections
    /\ signals < MaxSignals
    /\ Survivable(sections)
    /\ OnlyIndexed
    /\ LET c == raise_error(Ctl, sections, is_test, "Signal", "2", CurOp.id, current_step)
       IN  Preempted("signal_in_goto",
                     [c EXCEPT !.current_step = sections[CurOp.arg] - 1], <<>>)
    /\ UNCHANGED <<variables, functions, output, current_namespace, used_namespaces,
                   current_func>>

\* SIGINT inside exec_func, after operations.insert(i+1, popstate) and before
\* update_section_indexes(i+1)
signal_in_splice ==
    /\ Calls /\ Resolved.some /\ ~eval_fails(CurOp.args_str)
    /\ current_step \notin Range(runed_functions)
    /\ signals < MaxSignals
    /\ LET r == exec_func_loop(Resolved.body, 1, current_step, FALSE, operations, sections)
           h == exec_func([Heap EXCEPT !.opIndex = SetKey(@, CurOp.id, current_step)],
                          Resolved.body, TRUE, current_step)
       IN  /\ Survivable(r.sections)
           /\ operations' = h.operations /\ sections' = h.sections
           /\ states' = h.states /\ variables' = h.variables
           /\ runed_functions' = h.runed_functions
           /\ opIndex' = h.opIndex /\ nextId' = h.nextId
           /\ regions' = Append(Shifted(regions, current_step,
                                        Len(h.operations) - Len(operations)),
                                [start |-> current_step,
                                 end |-> current_step + Len(h.operations)
                                                      - Len(operations),
                                 at |-> Len(trace) + 1,
                                 body |-> Resolved.body,
                                 popstate |-> nextId])
           /\ Preempted("signal_in_splice",
                        raise_error([Ctl EXCEPT !.mem =
                                        IF CurOp.args_str # ""
                                        THEN MemValue(eval_value(CurOp.args_str))
                                        ELSE MemValue("")],
                                    r.sections, is_test, "Signal", "2", CurOp.id,
                                    current_step),
                        Resolved.body)
    /\ views' = Append(views, all_vars(states, variables))
    /\ UNCHANGED <<functions, output, current_namespace, used_namespaces, current_func>>

-----------------------------------------------------------------------------

Next ==
    \/ set_operations
    \/ start_link
    \/ run_endfunc
    \/ run_popstate
    \/ run_append
    \/ run_set
    \/ run_out
    \/ run_func
    \/ run_include
    \/ run_goto
    \/ run_try
    \/ run_endtry
    \/ run_namespace
    \/ run_endnamespace
    \/ run_use
    \/ run_pass
    \/ run_call
    \/ run_call_undefined
    \/ run_call_fails
    \/ advance
    \/ finish

\* a run no SIGINT interrupts
Spec == Init /\ [][Next]_vars

NextSignal == Next \/ signal_handler

\* a run with up to MaxSignals SIGINTs
SpecSignal == Init /\ [][NextSignal]_vars

NextPreempt == NextSignal \/ signal_in_goto \/ signal_in_splice

\* a run with up to MaxSignals SIGINTs, at a loop boundary or inside run()
SpecPreempt == Init /\ [][NextPreempt]_vars

-----------------------------------------------------------------------------
(* Properties. *)

\* this step called raise_error (from a handler of run() or from the signal handler)
RaiseStep == (nsteps' # nsteps \/ signals' # signals) /\ last'.raises # <<>>

\* the first raise_error call of this step
FirstRaise == last'.raises[1]

(* C1 -- try/catch single consumption.  A raise of any kind at the operation *)
(* at position p while a try-context is armed with a label L of the Section  *)
(* Table sets the try-context to Idle, makes sections[L] the next index the  *)
(* main loop dispatches (current_step = sections[L] - 1 with the increment   *)
(* next), and leaves {type, message, index: p} in mem; a raise while no      *)
(* try-context is armed does not move the program counter: it ends the       *)
(* process or is recorded as the harness error.                              *)
C1_TryCatchSingleConsumption ==
    [][/\ (RaiseStep /\ is_in_try # None /\ is_in_try \in DOMAIN sections)
            => /\ is_in_try' = None
               /\ current_step' = sections[is_in_try] - 1
               /\ phase' = "advance"
               /\ mem' = MemError(FirstRaise.type, FirstRaise.message, last'.pos)
       /\ (RaiseStep /\ is_in_try = None)
            => /\ current_step' = current_step
               /\ IF is_test
                  THEN runtime_error'.type = FirstRaise.type /\ phase' # "exit"
                  ELSE phase' = "exit"
      ]_vars

\* a body of plain commands: dispatching it neither jumps, calls nor raises
Straight(func_body) ==
    \A k \in 1..Len(func_body) : func_body[k].command \in {"set", "out", "pass"}

\* run_call spliced a body in this step (the call site was not a recorded one)
SpliceStep == nsteps' # nsteps /\ last'.act = "run_call" /\ Len(regions') # Len(regions)

\* the operations a splice of func_body puts after the call site
Spliced(func_body, popstate_id) == func_body \o <<PopstateObj(popstate_id)>>

\* the operations of a region were dispatched in stream order right after the call
WalkedInOrder(r) ==
    \A j \in 1..(Len(r.body) + 1) :
        (r.at + j <= Len(trace))
            => trace[r.at + j] = [pos |-> trace[r.at].pos + j,
                                  id |-> Spliced(r.body, r.popstate)[j].id]

Declared(func_body) ==
    {func_body[k].arg : k \in {n \in 1..Len(func_body) : func_body[n].command = "section"}}

(* C3 -- splice index shift.  When an invocation at position p inserts k     *)
(* operations, every Section Table entry that existed before the splice      *)
(* (and is not declared anew by the body) with value > p is increased by     *)
(* exactly k, value p+1 included, and every entry with value <= p is         *)
(* unchanged.                                                                *)
C3_SpliceIndexShift ==
    [][SpliceStep
         => LET p == current_step
                k == Len(operations') - Len(operations)
            IN  \A l \in (DOMAIN sections) \ Declared(last'.body) :
                    sections'[l] = IF sections[l] > p THEN sections[l] + k ELSE sections[l]
      ]_vars

\* the invocations whose spliced region, from just after the call site to its
\* popstate marker, holds index i
Enclosing(i) == {j \in 1..Len(regions) : regions[j].start < i /\ i <= regions[j].end}

(* C4 -- call stack depth equals nesting depth.  Whenever the main loop is   *)
(* about to dispatch the operation at the program counter, the number of     *)
(* frames on the call stack is the number of invocations whose spliced       *)
(* region encloses the program counter: the stack is empty outside every     *)
(* spliced body, also after a goto, a caught error or a revisited call site. *)
C4_DepthIsNesting ==
    phase = "fetch" => Len(states) = Cardinality(Enclosing(current_step))

\* this step dispatched a call whose name resolved to a function
CallStep == nsteps' # nsteps /\ last'.act \in {"run_call", "run_call_fails"}

\* the used namespaces that define op_name, by position in the declaration order
Defining(op_name) ==
    {k \in 1..Len(used_namespaces) : (used_namespaces[k] \o "." \o op_name) \in DOMAIN functions}

\* the least element of a non-empty set of numbers
Least(S) == CHOOSE k \in S : \A n \in S : k <= n

(* C5 -- used-namespace lookup is first-match-wins in declaration order.  An *)
(* unqualified call to f that is not defined in the current namespace        *)
(* resolves to the body of n.f for the earliest used namespace n that        *)
(* defines f, whatever that body is (an empty body included) and whether or  *)
(* not a bare global f exists.                                               *)
C5_FirstUsedNamespaceWins ==
    [][(/\ CallStep
        /\ (current_namespace \o CurOp.command) \notin DOMAIN functions
        /\ Defining(CurOp.command) # {})
         => last'.body =
              functions[used_namespaces[Least(Defining(CurOp.command))]
                        \o "." \o CurOp.command]
      ]_vars

(* C6 -- namespace precedence.  A call to f dispatched while the current     *)
(* namespace prefix is m and m.f is defined resolves to the body of m.f,     *)
(* whatever the used namespaces and the global functions define.             *)
C6_CurrentNamespaceWins ==
    [][(/\ nsteps' # nsteps
        /\ Calls
        /\ current_namespace # ""
        /\ (current_namespace \o CurOp.command) \in DOMAIN functions)
         => /\ last'.act \in {"run_call", "run_call_fails"}
            /\ last'.body = functions[current_namespace \o CurOp.command]
      ]_vars

\* inside namespace m, with a and b used and m.f, a.f and the global f defined,
\* a call to f was dispatched
C6_Witness ==
    /\ last.act = "run_call"
    /\ current_namespace = "m."
    /\ used_namespaces = <<"a", "b">>
    /\ {"m.f", "a.f", "f"} \subseteq DOMAIN functions
    /\ At(operations, last.pos).command = "f"
    /\ functions["m.f"] # functions["a.f"] /\ functions["m.f"] # functions["f"]

(* C7 -- recovery inside a try-context is total.  Every raise, of any kind,  *)
(* made while a try-context is armed, whatever label it names, leaves the    *)
(* process running and the harness error unset, puts the error payload in    *)
(* mem and redirects the program counter to the catch target.                *)
C7_RecoveryIsTotal ==
    [][(RaiseStep /\ is_in_try # None)
         => /\ phase' \notin {"exit", "crash"}
            /\ runtime_error' = runtime_error
            /\ mem' = MemError(FirstRaise.type, FirstRaise.message, FirstRaise.index)
            /\ is_in_try \in DOMAIN sections
            /\ current_step' = sections[is_in_try] - 1
      ]_vars

GuardStep ==
    /\ nsteps' # nsteps
    /\ Calls /\ Resolved.some /\ ~eval_fails(CurOp.args_str)
    /\ current_step \in Range(runed_functions)

\* how often the operation object id occurs in the trace tr of dispatches
Dispatches(tr, id) == Cardinality({i \in 1..Len(tr) : tr[i].id = id})

LinkStep == phase = "loaded" /\ phase' = "fetch"

\* index i of the stream ops lies inside a func..endfunc region
InRegion(ops, i) ==
    \E j \in 0..(i - 1) :
        /\ At(ops, j).command = "func"
        /\ \A m \in (j + 1)..(i - 1) : At(ops, m).command # "endfunc"

\* the indices of the label declarations of l outside every func..endfunc region
Linked(ops, l) ==
    {i \in 0..(Len(ops) - 1) :
        At(ops, i).command = "section" /\ At(ops, i).arg = l /\ ~InRegion(ops, i)}

\* the main loop dispatches a no-op in this step
PassStep == nsteps' # nsteps /\ Dispatching /\ CurOp.command = "pass"

\* the step leaves everything but the program counter as it was (the counter
\* itself is moved by the loop's increment)
NothingButCounter ==
    /\ current_step' = current_step /\ phase' = "advance"
    /\ UNCHANGED <<operations, sections, variables, states, functions, mem, output,
                   runtime_error, is_in_try, runed_functions, current_namespace,
                   used_namespaces, current_func>>

\* the greatest element of a non-empty set of numbers
Greatest(S) == CHOOSE k \in S : \A n \in S : n <= k

(* C10 -- link pass, as claimed.  After the link pass, for every label       *)
(* declaration at index i outside the func..endfunc regions,                 *)
(* sections[label] = i+1 and the stream holds a no-op at i; declarations     *)
(* inside a region stay in place and are not recorded; and dispatching a     *)
(* no-op changes nothing but the program counter.                            *)
C10_LinkPassEveryDeclaration ==
    [][/\ LinkStep
            => \A i \in 0..(Len(operations) - 1) :
                 At(operations, i).command = "section"
                   => IF InRegion(operations, i)
                      THEN /\ At(operations', i) = At(operations, i)
                           /\ (At(operations, i).arg \in DOMAIN sections'
                                 => Linked(operations, At(operations, i).arg) # {})
                      ELSE /\ At(operations, i).arg \in DOMAIN sections'
                           /\ sections'[At(operations, i).arg] = i + 1
                           /\ At(operations', i).command = "pass"
       /\ PassStep => NothingButCounter
      ]_vars

(* C10 -- link pass, amended.  After the link pass, every label declared     *)
(* outside the func..endfunc regions has sections[label] = i+1 for the LAST  *)
(* such declaration i, and each such declaration, last or not, is replaced   *)
(* by a no-op; declarations inside a region stay in place and are not        *)
(* recorded; and dispatching a no-op while no function definition is open    *)
(* changes nothing but the program counter.                                  *)
C10_LinkPass ==
    [][/\ LinkStep
            => /\ \A i \in 0..(Len(operations) - 1) :
                    At(operations, i).command = "section"
                      => IF InRegion(operations, i)
                         THEN At(operations', i) = At(operations, i)
                         ELSE At(operations', i).command = "pass"
               /\ Len(operations') = Len(operations)
               /\ DOMAIN sections' =
                    {l \in {At(operations, i).arg : i \in 0..(Len(operations) - 1)} :
                        Linked(operations, l) # {}}
               /\ \A l \in DOMAIN sections' :
                    sections'[l] = Greatest(Linked(operations, l)) + 1
       /\ (PassStep /\ ~InDefinition) => NothingButCounter
      ]_vars

\* a linked label's no-op has been dispatched twice (a loop jumped back past it)
C10_Witness ==
    /\ last.act = "run_pass"
    /\ Dispatches(trace, last.id) >= 2
    /\ DOMAIN sections # {}
    /\ \E k \in 1..Len(operations) : operations[k].command = "pass"

\* the latest raise_error call of this step
LastRaise == last'.raises[Len(last'.raises)]

(* C11 -- harness-mode raise.  In harness mode a raise made while no         *)
(* try-context is armed stores [kind, message, operation] as the runtime     *)
(* error and changes nothing else: program counter, mem, call stack,         *)
(* operation stream, Section Table and try-context are as before and the     *)
(* process goes on (mem is as the raising handler left it: emptied when the  *)
(* handler had read it before it failed); the runtime error changes in no    *)
(* other way, so the error exposed after the run is the last one raised so.  *)
C11_HarnessRaiseRecorded ==
    [][/\ (RaiseStep /\ is_test /\ is_in_try = None)
            => /\ runtime_error' = [type |-> LastRaise.type, message |-> LastRaise.message,
                                    op |-> last'.id, at |-> LastRaise.index]
               /\ Len(last'.raises) = 1
               /\ last'.id = At(operations, current_step).id
               /\ current_step' = current_step
               /\ phase' \in {"advance", "fetch"}
               /\ (phase' = "fetch") = (phase = "fetch" /\ last'.act = "signal_handler")
               /\ mem' = (IF last'.reads = <<>> THEN mem ELSE MemNone)
               /\ UNCHANGED <<states, operations, sections, is_in_try>>
       /\ (RaiseStep /\ is_test /\ LastRaise.armed = None)
            => /\ runtime_error'.type = LastRaise.type
               /\ runtime_error'.message = LastRaise.message
               /\ phase' \notin {"exit", "crash"}
       /\ (runtime_error' # runtime_error)
            => (RaiseStep /\ is_test /\ LastRaise.armed = None)
      ]_vars

\* a harness run raised twice with no try-context armed and went on to its end:
\* the error it exposes is the second one
C11_Witness ==
    /\ is_test
    /\ phase = "done"
    /\ program = Parsed(ProgTwoErrors)
    /\ output = "A"
    /\ runtime_error.type = "SyntaxError"
    /\ runtime_error.message = "undefined section \"nowhere\""
    /\ At(operations, runtime_error.at).command = "goto"
    /\ \E i \in 1..Len(trace) : At(operations, trace[i].pos).command = "bogus"

\* the process has ended: sys.exit(1), or an exception nothing catches (both
\* leave the interpreter with exit status 1)
Terminated == phase \in {"exit", "crash"}

(* C12 -- unarmed raise is fatal in normal mode.  Outside harness mode a     *)
(* raise of any kind made while no try-context is armed ends the process     *)
(* with exit status 1, whatever the depth of the call stack; the loop's      *)
(* handler of generic failures does not catch the exit, and nothing is       *)
(* dispatched or changed afterwards.                                         *)
C12_UnarmedRaiseFatal ==
    [][/\ (RaiseStep /\ ~is_test /\ LastRaise.armed = None) => Terminated'
       /\ (RaiseStep /\ ~is_test /\ is_in_try = None /\ last'.act # "signal_handler")
            => /\ phase' = "exit"
               /\ Len(last'.raises) = 1
               /\ runtime_error' = runtime_error
       /\ Terminated => UNCHANGED vars
      ]_vars

\* an undefined operation inside a called function's body ended a normal-mode run
\* with a frame on the stack and with the operations after it never dispatched
C12_Witness ==
    /\ ~is_test
    /\ phase = "exit"
    /\ states # <<>>
    /\ last.act = "run_call_undefined"
    /\ program = Parsed(ProgFatalInBody)
    /\ output = ""
    /\ current_step < Len(operations) - 1

\* the run is the scenario: section done; goto done; out "A"; section x_done; out "B"
GotoScenario == program = Parsed(ProgGoto)

\* the dispatches of the trace tr whose operation has the command cmd
DispatchesOf(tr, ops, cmd) == {i \in 1..Len(tr) : At(ops, tr[i].pos).command = cmd}

(* C13 -- goto scenario, as claimed.  The run of                             *)
(*   section done; goto done; out "A"; section x_done; out "B"               *)
(* terminates: the goto jumps forward over `out "A"`, so no operation is     *)
(* dispatched twice and the loop, which never blocks, ends after at most as  *)
(* many dispatches as the stream holds operations; `out "A"` is never        *)
(* dispatched and the output at the end is B only.                           *)
C13_GotoScenario ==
    GotoScenario
      => /\ nsteps <= Len(operations)
         /\ \A i \in 1..Len(trace) : \A j \in 1..Len(trace) :
                trace[i].id = trace[j].id => i = j
         /\ \A i \in DispatchesOf(trace, operations, "out") :
                At(operations, trace[i].pos).arg # "A"
         /\ output \in {"", "B"}
         /\ (phase = "done" => output = "B")

(* C13 -- goto scenario, amended.  In the run of that program the link pass  *)
(* makes sections[done] the index of the goto itself, so each dispatch of    *)
(* `goto done` sets the counter to that index - 1 and the loop's increment   *)
(* lands on the goto again: the run never terminates, neither out operation  *)
(* is ever dispatched and the output stays empty.                            *)
C13_GotoLoops ==
    [][GotoScenario
         => /\ (nsteps' # nsteps /\ Dispatching /\ CurOp.command = "goto")
                 => /\ sections["done"] = current_step
                    /\ current_step' = current_step - 1
                    /\ phase' = "advance"
                    /\ last'.raises = <<>>
            /\ (DispatchesOf(trace, operations, "goto") # {} /\ nsteps' # nsteps)
                 => CurOp.command = "goto"
            /\ output' = ""
            /\ phase' \notin {"done", "exit", "crash"}
            /\ DispatchesOf(trace', operations', "out") = {}
      ]_vars

\* the goto of the scenario has been dispatched three times and nothing was printed
C13_Witness ==
    /\ GotoScenario
    /\ Cardinality(DispatchesOf(trace, operations, "goto")) >= 3
    /\ last.act = "run_goto"
    /\ output = ""

\* a SIGINT is delivered in this step
SignalStep == signals' # signals

(* C14 -- the operator interrupt never preempts an operation.  A Signal      *)
(* error is raised only at a boundary between two iterations of the loop,    *)
(* against the operation at the program counter: the step that raises it     *)
(* dispatches nothing and changes neither the stream nor the Section Table;  *)
(* and when a try-context is armed with a recorded label, the operation      *)
(* dispatched next is the one at sections[label] as the table then stands.   *)
C14_InterruptNeverPreempts ==
    [][SignalStep
         => /\ nsteps' = nsteps
            /\ UNCHANGED <<operations, sections, states, trace>>
            /\ last'.id = At(operations, current_step).id
            /\ (is_in_try # None /\ is_in_try \in DOMAIN sections)
                 => /\ is_in_try' = None
                    /\ IF phase' = "advance"
                       THEN current_step' + 1 = sections'[is_in_try]
                       ELSE phase' = "fetch" /\ current_step' = sections'[is_in_try]
      ]_vars

\* this step dispatched an operation whose handler read the mem register
ReadStep == nsteps' # nsteps /\ last'.reads # <<>>

\* this step dispatched a call that wrote its argument to the mem register
WriteStep == nsteps' # nsteps /\ last'.act \in {"run_call", "signal_in_splice"}

(* C15 -- the mem register is read-once.  A read returns the value that is   *)
(* in mem and leaves mem empty, so a second read with no write in between    *)
(* returns None; a call's write replaces whatever is pending, and writes the *)
(* empty string when the argument text is empty; mem changes in no other     *)
(* way than by a read, a call's write or a caught error's payload, so only   *)
(* the latest write is ever read.                                            *)
C15_MemReadOnce ==
    [][/\ ReadStep
            => /\ last'.reads = <<mem>>
               /\ (\A k \in 1..Len(last'.raises) : last'.raises[k].armed = None)
                    => mem' = MemNone
       /\ get_mem(mem).value = mem
       /\ get_mem(get_mem(mem).mem).value = MemNone
       /\ (WriteStep /\ last'.raises = <<>>)
            => mem' = MemValue(IF CurOp.args_str = "" THEN ""
                               ELSE eval_value(CurOp.args_str))
       /\ (mem' # mem)
            => \/ ReadStep
               \/ WriteStep
               \/ RaiseStep /\ \E k \in 1..Len(last'.raises) : last'.raises[k].armed # None
      ]_vars

\* "b" was written over the pending "a" and read, and the very next operation
\* read the register again and got None
C15_Witness ==
    /\ program = Parsed(ProgMem)
    /\ last.act = "run_include"
    /\ last.reads = <<MemNone>>
    /\ mem = MemNone
    /\ Len(trace) >= 2
    /\ At(operations, trace[Len(trace) - 1].pos).command = "include"
    /\ trace[Len(trace) - 1].pos + 1 = trace[Len(trace)].pos

\* the operation that follows the (last) declaration of label l in a spliced
\* body: the next operation of the body that is inserted, or the popstate marker
Following(func_body, l, popstate_id) ==
    LET k == Greatest({n \in 1..Len(func_body) :
                          func_body[n].command = "section" /\ func_body[n].arg = l})
        rest == {n \in (k + 1)..Len(func_body) : func_body[n].command # "section"}
    IN  IF rest = {} THEN popstate_id ELSE func_body[Least(rest)].id

\* the entry of label l names after the step the operation it named before it
SameTarget(l) ==
    /\ l \in DOMAIN sections'
    /\ sections[l] < Len(operations)
         => /\ sections'[l] < Len(operations')
            /\ At(operations', sections'[l]) = At(operations, sections[l])

(* C16 -- label targets stay in sync with the stream.  Every step leaves     *)
(* each entry of the Section Table on the operation it named before the      *)
(* step, wherever insertions moved that operation, unless the step records   *)
(* the label anew; and an entry recorded by a splice names the operation     *)
(* that follows the label's declaration in the spliced body.  So in every    *)
(* reachable state sections[label] is the index of the operation that        *)
(* followed the declaration when the entry was recorded.                     *)
C16_LabelTargetsInSync ==
    [][/\ \A l \in DOMAIN sections :
            \/ SpliceStep /\ l \in Declared(last'.body)
            \/ SameTarget(l)
       /\ SpliceStep
            => \A l \in Declared(last'.body) :
                 /\ l \in DOMAIN sections'
                 /\ sections'[l] < Len(operations')
                 /\ At(operations', sections'[l]).id = Following(last'.body, l, nextId)
      ]_vars

\* the main loop dispatches an operation while a function definition is open
\* (a func was dispatched and no endfunc since)
DefinitionStep == nsteps' # nsteps /\ Dispatching /\ InDefinition

\* the dispatched operation is appended to the body being defined, nothing else
OnlyAppended ==
    /\ functions' = [functions EXCEPT ![current_func] = Append(@, CurOp)]
    /\ current_step' = current_step /\ phase' = "advance"
    /\ UNCHANGED <<variables, mem, states, sections, is_in_try, operations, output,
                   runtime_error, runed_functions, current_func, current_namespace,
                   used_namespaces>>

(* C17 -- definitions are metadata, as claimed.  Every operation dispatched  *)
(* between a func and the endfunc that closes it, whatever its command, is   *)
(* only appended to the body being defined: store, mem, call stack, Section  *)
(* Table, try-context and stream are unchanged, the counter not redirected.  *)
C17_AllAppended ==
    [][(DefinitionStep /\ CurOp.command # "endfunc") => OnlyAppended]_vars

(* C17 -- definitions are metadata, amended.  Every operation dispatched     *)
(* while a definition is open, other than endfunc and the popstate marker,   *)
(* is only appended to the body being defined; a popstate marker is not      *)
(* appended: it pops the top frame of the call stack, when there is one, and *)
(* changes nothing else.                                                     *)
C17_DefinitionsAreMetadata ==
    [][/\ (DefinitionStep /\ CurOp.command \notin {"endfunc", "popstate"}) => OnlyAppended
       /\ (DefinitionStep /\ CurOp.command = "popstate")
            => /\ states' = IF states = <<>> THEN states
                            ELSE SubSeq(states, 1, Len(states) - 1)
               /\ current_step' = current_step /\ phase' = "advance"
               /\ UNCHANGED <<functions, variables, mem, sections, is_in_try, operations,
                              output, runtime_error, runed_functions, current_func>>
      ]_vars

\* inside the definition of g a call to the defined function f was dispatched:
\* it was appended to g's body and nothing was spliced or pushed
C17_Witness ==
    /\ last.act = "run_append"
    /\ current_func = "g"
    /\ At(operations, last.pos).command = "f"
    /\ "f" \in DOMAIN functions
    /\ functions["g"] = <<At(operations, last.pos)>>
    /\ states = <<>>
    /\ \A j \in 1..Len(regions) : regions[j].start # last.pos

\* this step dispatched a call that failed before exec_func: the name resolves
\* to no function, or the evaluation of the argument text raised
FailedCallStep ==
    nsteps' # nsteps /\ last'.act \in {"run_call_undefined", "run_call_fails"}

(* C18 -- a call that fails before its body is spliced.  When the name       *)
(* resolves to no function (SyntaxError "undefined operation") or the        *)
(* evaluation of the argument text fails (RuntimeError), no frame is pushed, *)
(* no operation is inserted, the Section Table and the set of executed call  *)
(* sites are unchanged, and exactly one error is raised, against the call    *)
(* operation.                                                                *)
C18_FailedCallNoEffect ==
    [][FailedCallStep
         => /\ UNCHANGED <<states, operations, sections, runed_functions>>
            /\ Len(last'.raises) = 1
            /\ FirstRaise.index = current_step
            /\ last'.id = CurOp.id
            /\ IF Resolved.some
               THEN FirstRaise.type = "RuntimeError"
               ELSE /\ FirstRaise.type = "SyntaxError"
                    /\ FirstRaise.message = "undefined operation \"" \o CurOp.command \o "\""
      ]_vars

\* the invocations whose call operation now stands at index i of the stream
SplicedAt(i) == {j \in 1..Len(regions) : regions[j].start = i}

(* C19 -- the set of executed call sites stays attached to its call          *)
(* operations.  Every recorded index is the present position of the call     *)
(* operation that recorded it, whose popstate marker closes its spliced      *)
(* region; a call that the guard stops is the very call that recorded the    *)
(* index; and no call site whose body is already in the stream is spliced    *)
(* again.                                                                    *)
C19_CallSitesStayAttached ==
    [][/\ \A k \in 1..Len(runed_functions) :
            \E j \in SplicedAt(runed_functions[k]) :
                /\ At(operations, runed_functions[k]).id = trace[regions[j].at].id
                /\ At(operations, regions[j].end).id = regions[j].popstate
       /\ GuardStep
            => \E j \in SplicedAt(current_step) : trace[regions[j].at].id = CurOp.id
       /\ SpliceStep => SplicedAt(current_step) = {}
      ]_vars

====
